---- MODULE Spec2Model ----
(***************************************************************************)
(* A model of pkg/commands/copy.go: the symlink-safe destination resolver  *)
(* (resolveIfSymlink), the COPY executor (CopyCommand.ExecuteCommand), the *)
(* cached-layer executor (CachingCopyCommand.ExecuteCommand) and the image *)
(* cache warmer of pkg/cache.                                              *)
(*                                                                         *)
(* A path string is a sequence of tokens: the separator "/" or a whole     *)
(* path element ("a", "."), so "/a/l/" is <<"/","a","/","l","/">> and the  *)
(* empty string is <<>>.                                                   *)
(***************************************************************************)
EXTENDS Integers, Sequences, FiniteSets, TLC

VARIABLES
    mode,           \* which component this behaviour exercises
    pc,             \* position of the running call
    fs,             \* the root filesystem: real node (sequence of names) -> entry
    destPath,       \* resolveIfSymlink: the argument
    res,            \* resolveIfSymlink: the returned (path, err) and the lstat count
    cc,             \* the CopyCommand object and the locals of its ExecuteCommand
    cr,             \* the CachingCopyCommand object
    ret,            \* the error returned by the last ExecuteCommand ("" is nil)
    wm              \* the Warmer, its cache store and the clock

vars == <<mode, pc, fs, destPath, res, cc, cr, ret, wm>>

(***************************************************************************)
(* Bounds                                                                  *)
(***************************************************************************)
MaxComps == 3       \* elements in an enumerated destination path
MaxSymlinks == 3    \* symlinks followed in one lookup before ELOOP

Sep == "/"
Names == {"a", "l"}
NoErr == ""

(***************************************************************************)
(* Strings and path/filepath                                               *)
(***************************************************************************)
Last(s) == s[Len(s)]
Front(s) == SubSeq(s, 1, Len(s) - 1)

\* strings.HasSuffix(p, "/")
HasSuffixSep(p) == Len(p) > 0 /\ Last(p) = Sep

\* filepath.IsAbs
IsAbs(p) == Len(p) > 0 /\ p[1] = Sep

\* the elements between separators; empty elements (from "//" or a
\* leading or trailing separator) vanish
CompsOf(p) == SelectSeq(p, LAMBDA t : t # Sep)

RECURSIVE JoinSep(_)
JoinSep(cs) ==
    IF cs = <<>> THEN <<>>
    ELSE IF Len(cs) = 1 THEN cs
    ELSE <<Head(cs), Sep>> \o JoinSep(Tail(cs))

\* the element-by-element pass of filepath.Clean
RECURSIVE CleanComps(_, _, _)
CleanComps(cs, out, rooted) ==
    IF cs = <<>> THEN out
    ELSE LET c == Head(cs) IN
         IF c = "." THEN CleanComps(Tail(cs), out, rooted)
         ELSE IF c = ".." THEN
              IF out # <<>> /\ Last(out) # ".." THEN CleanComps(Tail(cs), Front(out), rooted)
              ELSE IF rooted THEN CleanComps(Tail(cs), out, rooted)
              ELSE CleanComps(Tail(cs), Append(out, ".."), rooted)
         ELSE CleanComps(Tail(cs), Append(out, c), rooted)

\* filepath.Clean
Clean(p) ==
    IF p = <<>> THEN <<".">>
    ELSE LET rooted == p[1] = Sep
             cs == CleanComps(CompsOf(p), <<>>, rooted)
         IN  IF rooted THEN <<Sep>> \o JoinSep(cs)
             ELSE IF cs = <<>> THEN <<".">>
             ELSE JoinSep(cs)

\* index of the last separator of p, 0 when there is none
RECURSIVE LastSepIndex(_, _)
LastSepIndex(p, i) ==
    IF i = 0 THEN 0
    ELSE IF p[i] = Sep THEN i
    ELSE LastSepIndex(p, i - 1)

\* filepath.Split
Split(p) ==
    LET i == LastSepIndex(p, Len(p))
    IN  [dir |-> SubSeq(p, 1, i), file |-> SubSeq(p, i + 1, Len(p))]

\* filepath.Join(a, b): empty elements are ignored, the result is Cleaned
Join(a, b) ==
    IF a = <<>> /\ b = <<>> THEN <<>>
    ELSE IF a = <<>> THEN Clean(b)
    ELSE IF b = <<>> THEN Clean(a)
    ELSE Clean(a \o <<Sep>> \o b)

(***************************************************************************)
(* The filesystem                                                          *)
(***************************************************************************)
None == [kind |-> "none", target |-> <<>>]
Dir == [kind |-> "dir", target |-> <<>>]
File == [kind |-> "file", target |-> <<>>]
Link(t) == [kind |-> "link", target |-> t]

Kind(f, n) == IF n \in DOMAIN f THEN f[n].kind ELSE "none"

\* the path string of a real node
ToPath(n) == <<Sep>> \o JoinSep(n)

\* kernel path walk from directory cur over the elements rest
RECURSIVE KWalk(_, _, _, _, _)
KWalk(f, cur, rest, followLast, fuel) ==
    IF rest = <<>> THEN [err |-> NoErr, node |-> cur, kind |-> "dir"]
    ELSE LET c == Head(rest)
             t == Tail(rest)
             n == Append(cur, c)
             k == Kind(f, n)
         IN  IF c = "." THEN KWalk(f, cur, t, followLast, fuel)
             ELSE IF c = ".." THEN
                  KWalk(f, IF cur = <<>> THEN cur ELSE Front(cur), t, followLast, fuel)
             ELSE IF k = "none" THEN [err |-> "ENOENT", node |-> <<>>, kind |-> "none"]
             ELSE IF k = "dir" THEN KWalk(f, n, t, followLast, fuel)
             ELSE IF k = "file" THEN
                  IF t = <<>> THEN [err |-> NoErr, node |-> n, kind |-> "file"]
                  ELSE [err |-> "ENOTDIR", node |-> <<>>, kind |-> "none"]
             ELSE IF t = <<>> /\ ~followLast THEN [err |-> NoErr, node |-> n, kind |-> "link"]
             ELSE IF fuel = 0 THEN [err |-> "ELOOP", node |-> <<>>, kind |-> "none"]
             ELSE KWalk(f, <<>>, f[n].target \o t, followLast, fuel - 1)

\* os.Lstat: the last element is not followed, unless the path ends in a
\* separator, which the kernel reads as "the directory this names"
Lstat(f, p) ==
    IF p = <<>> THEN [err |-> "ENOENT", node |-> <<>>, kind |-> "none"]
    ELSE LET cs == CompsOf(p)
         IN  KWalk(f, <<>>, IF HasSuffixSep(p) /\ cs # <<>> THEN Append(cs, ".") ELSE cs,
                   FALSE, MaxSymlinks)

\* mutant: the path is normalised but its symlinks are not resolved
EvalSymlinks_Unresolved(f, p) == [err |-> NoErr, path |-> Clean(p)]

\* filepath.EvalSymlinks: every link followed, the real path returned
EvalSymlinks(f, p) ==
    LET w == KWalk(f, <<>>, CompsOf(p), TRUE, MaxSymlinks)
    IN  [err |-> w.err, path |-> IF w.err = NoErr THEN ToPath(w.node) ELSE <<>>]

Prefix(cs, k) == SubSeq(cs, 1, k)
Follow(f, cs) == KWalk(f, <<>>, cs, TRUE, MaxSymlinks)
NoFollow(f, cs) == KWalk(f, <<>>, cs, FALSE, MaxSymlinks)

\* the number of leading elements of cs that name something that exists
ExistingLen(f, cs) ==
    CHOOSE k \in 0..Len(cs) :
        /\ Follow(f, Prefix(cs, k)).err = NoErr
        /\ \A j \in (k + 1)..Len(cs) : Follow(f, Prefix(cs, j)).err # NoErr

\* what creating kind at path p does: missing parents become directories,
\* as MkdirAll does; symlinks on the way are followed by the kernel
FsCreate(f, p, kind) ==
    LET cs == CompsOf(p)
        k == ExistingLen(f, cs)
        base == Follow(f, Prefix(cs, k))
        n == Len(cs)
        fresh == [j \in (k + 1)..n |-> base.node \o SubSeq(cs, k + 1, j)]
        added == [m \in {fresh[j] : j \in (k + 1)..n} |->
                     IF m = fresh[n] THEN [kind |-> kind, target |-> <<>>] ELSE Dir]
    IN  IF ~IsAbs(p) \/ cs = <<>> THEN [ok |-> FALSE, fs |-> f]
        ELSE IF k = n THEN [ok |-> base.kind = kind, fs |-> f]
        ELSE IF base.kind # "dir" \/ Kind(f, fresh[k + 1]) # "none" THEN [ok |-> FALSE, fs |-> f]
        ELSE [ok |-> TRUE, fs |-> added @@ f]

(***************************************************************************)
(* resolveIfSymlink                                                        *)
(***************************************************************************)
\* the upward walk: for newPath != "/" { os.Lstat ... }
RECURSIVE WalkUp(_, _, _, _)
WalkUp(f, newPath, nonexistentPaths, lstats) ==
    IF newPath = <<Sep>> THEN
        [err |-> NoErr, newPath |-> newPath, nonexistentPaths |-> nonexistentPaths, lstats |-> lstats]
    ELSE LET st == Lstat(f, newPath) IN
         IF st.err = "ENOENT" THEN
             WalkUp(f, Clean(Split(newPath).dir),
                    Append(nonexistentPaths, Split(newPath).file), lstats + 1)
         ELSE IF st.err # NoErr THEN
             [err |-> "failed to lstat", newPath |-> <<>>,
              nonexistentPaths |-> nonexistentPaths, lstats |-> lstats + 1]
         ELSE LET ev == EvalSymlinks(f, newPath) IN
              IF ev.err # NoErr THEN
                  [err |-> "failed to eval symlinks", newPath |-> <<>>,
                   nonexistentPaths |-> nonexistentPaths, lstats |-> lstats + 1]
              ELSE [err |-> NoErr, newPath |-> ev.path,
                    nonexistentPaths |-> nonexistentPaths, lstats |-> lstats + 1]

\* mutant: the pending names are appended in recording order
RECURSIVE Rebuild_Forward(_, _, _)
Rebuild_Forward(newPath, nonexistentPaths, i) ==
    IF i = 0 THEN newPath
    ELSE Rebuild_Forward(Join(newPath, nonexistentPaths[Len(nonexistentPaths) - i + 1]),
                         nonexistentPaths, i - 1)

\* for i := len(nonexistentPaths) - 1; i >= 0; i-- { newPath = Join(newPath, ...) }
RECURSIVE Rebuild(_, _, _)
Rebuild(newPath, nonexistentPaths, i) ==
    IF i = 0 THEN newPath
    ELSE Rebuild(Join(newPath, nonexistentPaths[i]), nonexistentPaths, i - 1)

\* mutant: the absolute-path check is missing
resolveIfSymlink_NoAbsCheck(f, dest) ==
    LET w == WalkUp(f, dest, <<>>, 0) IN
    IF w.err # NoErr THEN [path |-> <<>>, err |-> w.err, lstats |-> w.lstats]
    ELSE [path |-> Clean(Rebuild(w.newPath, w.nonexistentPaths, Len(w.nonexistentPaths))),
          err |-> NoErr, lstats |-> w.lstats]

resolveIfSymlink(f, dest) ==
    IF ~IsAbs(dest) THEN [path |-> <<>>, err |-> "dest path must be abs", lstats |-> 0]
    ELSE LET w == WalkUp(f, dest, <<>>, 0) IN
         IF w.err # NoErr THEN [path |-> <<>>, err |-> w.err, lstats |-> w.lstats]
         ELSE [path |-> Clean(Rebuild(w.newPath, w.nonexistentPaths, Len(w.nonexistentPaths))),
               err |-> NoErr, lstats |-> w.lstats]

(***************************************************************************)
(* Inputs: filesystems and destination paths                               *)
(***************************************************************************)
SeqsUpTo(S, n) == UNION {[1..k -> S] : k \in 0..n}

MkPath(abs, cs, trail) ==
    (IF abs THEN <<Sep>> ELSE <<>>) \o JoinSep(cs)
        \o (IF trail /\ cs # <<>> THEN <<Sep>> ELSE <<>>)

Paths == {MkPath(abs, cs, trail) : abs \in BOOLEAN, cs \in SeqsUpTo(Names, MaxComps),
                                   trail \in BOOLEAN}

\* where a symlink may point: a directory, a file, itself, another link
Targets == {<<"a">>, <<"a", "a">>, <<"l">>, <<"a", "l">>}
LinkEntries == {None} \cup {Link(t) : t \in Targets}
PlainEntries == {None, Dir, File}

Entry(n, e) == IF e.kind = "none" THEN <<>> ELSE n :> e

\* "a" is absent, a directory or a file; "l" is absent or a symlink; the
\* same one level down when /a is a directory
FsShapes ==
    {c \in [a1 : PlainEntries, l1 : LinkEntries, a2 : PlainEntries, l2 : LinkEntries] :
        c.a1.kind # "dir" => (c.a2 = None /\ c.l2 = None)}

FsFamily ==
    {Entry(<<"a">>, c.a1) @@ Entry(<<"l">>, c.l1)
        @@ Entry(<<"a", "a">>, c.a2) @@ Entry(<<"a", "l">>, c.l2) : c \in FsShapes}

NoRes == [path |-> <<>>, err |-> NoErr, lstats |-> 0]
Idle == [x |-> 0]

(***************************************************************************)
(* Specification of the resolver: one call on an enumerated input          *)
(***************************************************************************)
InitResolve ==
    /\ mode = "resolve"
    /\ pc = "call"
    /\ fs \in FsFamily
    /\ destPath \in Paths
    /\ res = NoRes
    /\ cc = Idle
    /\ cr = Idle
    /\ ret = NoErr
    /\ wm = Idle

ResolveCall ==
    /\ mode = "resolve"
    /\ pc = "call"
    /\ res' = resolveIfSymlink(fs, destPath)
    /\ pc' = "done"
    /\ UNCHANGED <<mode, fs, destPath, cc, cr, ret, wm>>

NextResolve == ResolveCall

SpecResolve == InitResolve /\ [][NextResolve]_vars

(***************************************************************************)
(* Properties of the resolver                                              *)
(***************************************************************************)
\* the real location of the longest existing ancestor, then the literal tail
RealDest(f, p) ==
    LET cs == CompsOf(p)
        k == ExistingLen(f, cs)
    IN  ToPath(Follow(f, Prefix(cs, k)).node \o SubSeq(cs, k + 1, Len(cs)))

\* some existing element of the path is a symlink to a directory
SymlinkToDirOnPath(f, p) ==
    LET cs == CompsOf(p)
    IN  \E k \in 1..Len(cs) :
            /\ NoFollow(f, Prefix(cs, k)).err = NoErr
            /\ NoFollow(f, Prefix(cs, k)).kind = "link"
            /\ Follow(f, Prefix(cs, k)).err = NoErr
            /\ Follow(f, Prefix(cs, k)).kind = "dir"

\* no element of the path is a symlink
NoSymlinkOnPath(f, p) ==
    LET cs == CompsOf(p)
    IN  \A k \in 1..Len(cs) : Kind(f, Prefix(cs, k)) # "link"

\* some lookup on the path fails with an error other than not-exist: the
\* path runs through a regular file (or names one with a trailing
\* separator), or a symlink on it dangles or loops
LookupBroken(f, p) ==
    LET cs == CompsOf(p)
    IN  \/ \E k \in 1..Len(cs) :
            \/ NoFollow(f, Prefix(cs, k)).err \in {"ENOTDIR", "ELOOP"}
            \/ /\ NoFollow(f, Prefix(cs, k)).err = NoErr
               /\ NoFollow(f, Prefix(cs, k)).kind = "link"
               /\ Follow(f, Prefix(cs, k)).err # NoErr
        \/ /\ HasSuffixSep(p)
           /\ cs # <<>>
           /\ Follow(f, cs).err = NoErr
           /\ Follow(f, cs).kind = "file"

Resolved == mode = "resolve" /\ pc = "done"

\* C1 (as stated): whenever some existing element of an absolute destination
\* is a symlink to a directory, resolveIfSymlink returns, without error, that
\* directory's real location followed by the non-existent tail.
C1_Original ==
    (Resolved /\ IsAbs(destPath) /\ SymlinkToDirOnPath(fs, destPath))
        => (res.err = NoErr /\ res.path = RealDest(fs, destPath))

\* C1 (amended): the same, provided no lookup on the path fails with an error
\* other than not-exist; when one does, resolveIfSymlink returns an error and
\* the empty path.
C1_SymlinkAncestorResolved ==
    (Resolved /\ IsAbs(destPath) /\ SymlinkToDirOnPath(fs, destPath))
        => IF LookupBroken(fs, destPath)
           THEN res.err # NoErr /\ res.path = <<>>
           ELSE res.err = NoErr /\ res.path = RealDest(fs, destPath)

C1_Witness ==
    /\ Resolved /\ IsAbs(destPath) /\ SymlinkToDirOnPath(fs, destPath)
    /\ ~LookupBroken(fs, destPath)
    /\ ExistingLen(fs, CompsOf(destPath)) < Len(CompsOf(destPath))
    /\ res.err = NoErr
    /\ res.path = RealDest(fs, destPath)
    /\ res.path # Clean(destPath)

\* C2 (as stated): for every absolute destination with no symlink among its
\* elements, resolveIfSymlink returns, without error, the Cleaned input.
C2_Original ==
    (Resolved /\ IsAbs(destPath) /\ NoSymlinkOnPath(fs, destPath))
        => (res.err = NoErr /\ res.path = Clean(destPath))

\* C2 (amended): the same, provided the path does not run through a regular
\* file; when it does, resolveIfSymlink returns an error and the empty path.
C2_NoSymlinkUnchanged ==
    (Resolved /\ IsAbs(destPath) /\ NoSymlinkOnPath(fs, destPath))
        => IF LookupBroken(fs, destPath)
           THEN res.err # NoErr /\ res.path = <<>>
           ELSE res.err = NoErr /\ res.path = Clean(destPath)

C2_Witness ==
    /\ Resolved /\ IsAbs(destPath) /\ NoSymlinkOnPath(fs, destPath)
    /\ ~LookupBroken(fs, destPath)
    /\ Len(CompsOf(destPath)) - ExistingLen(fs, CompsOf(destPath)) >= 2
    /\ destPath # Clean(destPath)
    /\ res.err = NoErr
    /\ res.path = Clean(destPath)

\* C3: a destination that is not absolute gets an error and the empty path,
\* and the filesystem is not queried.
C3_NonAbsoluteFails ==
    (Resolved /\ ~IsAbs(destPath))
        => (res.err = "dest path must be abs" /\ res.path = <<>> /\ res.lstats = 0)

C3_Witness ==
    /\ Resolved /\ ~IsAbs(destPath) /\ destPath # <<>>
    /\ fs # <<>>
    /\ res.err # NoErr

(***************************************************************************)
(* CopyCommand.ExecuteCommand                                              *)
(***************************************************************************)
MaxSrcs == 2        \* matched sources of one instruction
MaxHeredocs == 1    \* inline heredoc sources of one instruction

DoNotChange == -1   \* the "unspecified" uid/gid

\* uint32(x) of an int64 x, as its two 16-bit halves (the value is
\* hi * 65536 + lo): uint32(-1) is [hi |-> 65535, lo |-> 65535]
ToUint32(x) == [hi |-> (x \div 65536) % 65536, lo |-> x % 65536]
Uint32Zero == [hi |-> 0, lo |-> 0]

\* chown and user specifications, and the ids they name
Users == {"", "1000:1000"}
Chowns == {"", "0:0", "nosuchuser"}
IdOf(spec) == IF spec = "0:0" THEN 0 ELSE 1000

\* util.GetUserGroup: no chown leaves both ids unspecified
getUserGroup(chown) ==
    IF chown = "" THEN [err |-> NoErr, uid |-> DoNotChange, gid |-> DoNotChange]
    ELSE IF chown = "nosuchuser" THEN [err |-> "user", uid |-> 0, gid |-> 0]
    ELSE [err |-> NoErr, uid |-> IdOf(chown), gid |-> IdOf(chown)]

\* util.GetActiveUserGroup: chown if given, else the image's user if set
getActiveUserGroup(user, chown) ==
    IF chown # "" THEN getUserGroup(chown)
    ELSE getUserGroup(user)

\* what os.Lstat reports for each matched source of the file context
SrcKind(src) ==
    IF src = "d" THEN "dir"
    ELSE IF src = "s" THEN "link"
    ELSE IF src = "m" THEN "missing"
    ELSE "file"
SrcNames == {"b", "d", "s", "m"}
HeredocNames == {"h"}
DirChild == "c"     \* every source directory holds one file of this name

\* destination patterns of the instruction, after variable substitution
Dests == {<<Sep, "l", Sep>>, <<Sep, "a", Sep, "l">>, <<"l", Sep>>, <<Sep, "a", Sep, "a", Sep>>}
\* config.WorkingDir
Cwds == {<<>>, <<Sep, "a">>}
RootDir == <<Sep>>

\* util.IsDestDir: what the filesystem says, else the trailing separator
IsDestDir(f, p) ==
    LET w == Follow(f, CompsOf(p))
    IN  IF w.err # NoErr THEN HasSuffixSep(p) ELSE w.kind = "dir"

\* util.DestinationFilepath, given the file name of the source ("" for a
\* directory, whose path ends in a separator)
DestinationFilepath(f, srcFileName, dest, cwd) ==
    LET abs == IF IsAbs(dest) THEN dest
               ELSE Join(cwd, dest) \o (IF HasSuffixSep(dest) THEN <<Sep>> ELSE <<>>)
        named == IF IsDestDir(f, abs) THEN Join(abs, srcFileName) ELSE abs
    IN  IF srcFileName = <<>> /\ ~HasSuffixSep(named) THEN named \o <<Sep>> ELSE named

CCInit(f) ==
    [fileContext |-> "context", snapshotFiles |-> <<>>,
     uid |-> DoNotChange, gid |-> DoNotChange,
     srcs |-> <<>>, heredocs |-> <<>>, dest |-> <<>>, cwd |-> <<>>,
     i |-> 0, calls |-> <<>>, fs0 |-> f, failedAt |-> "none"]

\* filesystems a COPY starts from: /a and /l only
CopyFsFamily == {f \in FsFamily : DOMAIN f \subseteq {<<"a">>, <<"l">>}}

InitCopy ==
    /\ mode = "copy"
    /\ pc = "start"
    /\ fs \in CopyFsFamily
    /\ destPath = <<>>
    /\ res = NoRes
    /\ cc = CCInit(fs)
    /\ cr = Idle
    /\ ret = NoErr
    /\ wm = Idle

\* where the loops continue after n sources and h heredocs have been handled
AfterSource(c, n) ==
    IF n < Len(c.srcs) THEN "srcs"
    ELSE IF c.heredocs # <<>> THEN "heredocs"
    ELSE "done"
AfterHeredoc(c, h) == IF h < Len(c.heredocs) THEN "heredocs" ELSE "done"

\* mutant: the error is recorded but the loop is not left
Fail_KeepGoing(msg) == ret' = msg /\ pc' = IF pc = "start" THEN "done" ELSE pc

\* return errors.Wrap(err, msg)
Fail(msg) == ret' = msg /\ pc' = "done"

\* mutant: a failed chmod resolution is not returned
ResolveError_NoChmodCheck(ugErr, srcsOk, chmodOk) ==
    IF ugErr # NoErr THEN "getting user group from chown"
    ELSE IF ~srcsOk THEN "resolving src"
    ELSE NoErr

\* lines 56-84: the error ExecuteCommand returns before its loops, if any
ResolveError(ugErr, srcsOk, chmodOk) ==
    IF ugErr # NoErr THEN "getting user group from chown"
    ELSE IF ~srcsOk THEN "resolving src"
    ELSE IF ~chmodOk THEN "getting permissions from chmod"
    ELSE NoErr

\* which of the three resolutions failed first, as the callees reported it
FailedAt(ugErr, srcsOk, chmodOk) ==
    IF ugErr # NoErr THEN "chown"
    ELSE IF ~srcsOk THEN "srcs"
    ELSE IF ~chmodOk THEN "chmod"
    ELSE "none"

\* mutant: a vetoed copy is recorded all the same
AppendUnlessExcluded_Always(snapshotFiles, exclude, dest) == Append(snapshotFiles, dest)

\* lines 126-129 and 136-139: if exclude { continue }; append(c.snapshotFiles, destPath)
AppendUnlessExcluded(snapshotFiles, exclude, dest) ==
    IF exclude THEN snapshotFiles ELSE Append(snapshotFiles, dest)

\* lines 49-85: ownership, sources and wildcards, chmod
Resolve ==
    /\ mode = "copy"
    /\ pc = "start"
    /\ \E from \in {"", "stage"}, user \in Users, chown \in Chowns, copyAsRoot \in BOOLEAN,
          srcsOk \in BOOLEAN, chmodOk \in BOOLEAN,
          srcs \in SeqsUpTo(SrcNames, MaxSrcs), heredocs \in SeqsUpTo(HeredocNames, MaxHeredocs),
          dest \in Dests, cwd \in Cwds :
        LET ug == IF from # "" THEN getUserGroup(chown)
                  ELSE getActiveUserGroup(IF copyAsRoot THEN "0:0" ELSE user, chown)
            e == ResolveError(ug.err, srcsOk, chmodOk)
            c1 == [cc EXCEPT !.fileContext = IF from # "" THEN from ELSE @,
                             !.failedAt = FailedAt(ug.err, srcsOk, chmodOk)]
            c2 == [c1 EXCEPT !.uid = ug.uid, !.gid = ug.gid, !.srcs = srcs,
                             !.heredocs = heredocs, !.dest = dest, !.cwd = cwd, !.i = 1]
        IN  /\ srcs # <<>> \/ heredocs # <<>>
            /\ IF e # NoErr THEN cc' = c1 /\ Fail(e)
               ELSE cc' = c2 /\ pc' = AfterSource(c2, 0) /\ ret' = ret
    /\ UNCHANGED <<mode, fs, destPath, res, wm, cr>>

Call(fn, dest, uid, gid, out, files) ==
    [fn |-> fn, dest |-> dest, uid |-> uid, gid |-> gid, out |-> out, files |-> files]

\* lines 87-141: one iteration of the loop over the matched sources
CopySource ==
    /\ mode = "copy"
    /\ pc = "srcs"
    /\ LET src == cc.srcs[cc.i]
           kind == SrcKind(src)
           cwd == IF cc.cwd = <<>> THEN RootDir ELSE cc.cwd
           literal == DestinationFilepath(fs, IF kind = "dir" THEN <<>> ELSE <<src>>, cc.dest, cwd)
           r == resolveIfSymlink(fs, literal)
           next == [cc EXCEPT !.i = @ + 1]
       IN  IF kind = "missing" THEN
               Fail("could not copy source") /\ UNCHANGED <<cc, fs>>
           ELSE IF r.err # NoErr THEN
               Fail("resolving dest symlink") /\ UNCHANGED <<cc, fs>>
           ELSE IF kind = "dir" THEN
               \* util.CopyDir: the directory, then what it holds
               LET top == FsCreate(fs, r.path, "dir")
                   child == Join(r.path, <<DirChild>>)
                   all == FsCreate(top.fs, child, "file")
               IN  \E failed \in BOOLEAN :
                       IF failed \/ ~top.ok \/ ~all.ok THEN
                           /\ fs' = top.fs
                           /\ cc' = [cc EXCEPT !.calls = Append(@,
                                         Call("CopyDir", r.path, cc.uid, cc.gid, "err", <<>>))]
                           /\ Fail("copying dir")
                       ELSE
                           /\ fs' = all.fs
                           /\ cc' = [next EXCEPT
                                  !.calls = Append(@, Call("CopyDir", r.path, cc.uid, cc.gid,
                                                           "ok", <<r.path, child>>)),
                                  !.snapshotFiles = @ \o <<r.path, child>>]
                           /\ pc' = AfterSource(cc, cc.i)
                           /\ ret' = ret
           ELSE
               \* util.CopySymlink, util.CopyFile: written, vetoed or failed
               LET fn == IF kind = "link" THEN "CopySymlink" ELSE "CopyFile"
                   w == FsCreate(fs, r.path, "file")
               IN  \E out \in {"ok", "exclude", "err"} :
                       IF out = "err" \/ (out = "ok" /\ ~w.ok) THEN
                           /\ fs' = fs
                           /\ cc' = [cc EXCEPT !.calls = Append(@,
                                         Call(fn, r.path, cc.uid, cc.gid, "err", <<>>))]
                           /\ Fail(IF kind = "link" THEN "copying symlink" ELSE "copying file")
                       ELSE
                           /\ fs' = IF out = "exclude" THEN fs ELSE w.fs
                           /\ cc' = [next EXCEPT
                                  !.calls = Append(@, Call(fn, r.path, cc.uid, cc.gid, out, <<>>)),
                                  !.snapshotFiles =
                                      AppendUnlessExcluded(@, out = "exclude", r.path)]
                           /\ pc' = AfterSource(cc, cc.i)
                           /\ ret' = ret
    /\ UNCHANGED <<mode, destPath, res, wm, cr>>

\* lines 143-161: one iteration of the loop over the heredocs
CopyHeredoc ==
    /\ mode = "copy"
    /\ pc = "heredocs"
    /\ LET h == cc.i - Len(cc.srcs)
           src == cc.heredocs[h]
           cwd == IF cc.cwd = <<>> THEN RootDir ELSE cc.cwd
           literal == DestinationFilepath(fs, <<src>>, cc.dest, cwd)
           w == FsCreate(fs, literal, "file")
       IN  \E failed \in BOOLEAN :
               IF failed \/ ~w.ok THEN
                   /\ fs' = fs
                   /\ cc' = [cc EXCEPT !.calls = Append(@,
                                 Call("CreateFile", literal, ToUint32(cc.uid), ToUint32(cc.gid),
                                      "err", <<>>))]
                   /\ Fail("creating file")
               ELSE
                   /\ fs' = w.fs
                   /\ cc' = [cc EXCEPT
                          !.i = @ + 1,
                          !.calls = Append(@, Call("CreateFile", literal, ToUint32(cc.uid),
                                                   ToUint32(cc.gid), "ok", <<>>)),
                          !.snapshotFiles = Append(@, literal)]
                   /\ pc' = AfterHeredoc(cc, h)
                   /\ ret' = ret
    /\ UNCHANGED <<mode, destPath, res, wm, cr>>

NextCopy == Resolve \/ CopySource \/ CopyHeredoc

SpecCopy == InitCopy /\ [][NextCopy]_vars

(***************************************************************************)
(* Properties of CopyCommand.ExecuteCommand                                *)
(***************************************************************************)
Range(q) == {q[k] : k \in DOMAIN q}
CallsOf(fns) == {cc.calls[k] : k \in {j \in DOMAIN cc.calls : cc.calls[j].fn \in fns}}
Exists(f, p) == Follow(f, CompsOf(p)).err = NoErr
FsKept(f, g) == \A n \in DOMAIN f : n \in DOMAIN g /\ g[n] = f[n]

\* the paths the copy calls made so far account for, in call order: what a
\* directory copy reported, the destination of a file, symlink or heredoc
\* that was written, nothing for a vetoed or failed call
RECURSIVE Reported(_)
Reported(calls) ==
    IF calls = <<>> THEN <<>>
    ELSE LET c == Head(calls)
         IN  (IF c.out # "ok" THEN <<>>
              ELSE IF c.fn = "CopyDir" THEN c.files
              ELSE <<c.dest>>) \o Reported(Tail(calls))

CopyReturned == mode = "copy" /\ pc = "done"

\* C6: after a successful ExecuteCommand the result holds exactly the paths
\* of the copies that were written (none for a vetoed copy), and every one
\* of them exists on disk.
C6_ResultIsWhatWasWritten ==
    (CopyReturned /\ ret = NoErr)
        => /\ cc.snapshotFiles = Reported(cc.calls)
           /\ \A p \in Range(cc.snapshotFiles) : Exists(fs, p)

C6_Witness ==
    /\ CopyReturned /\ ret = NoErr
    /\ \E c \in CallsOf({"CopyFile", "CopySymlink"}) : c.out = "exclude"
    /\ \E c \in CallsOf({"CopyFile", "CopySymlink", "CopyDir"}) : c.out = "ok"
    /\ \E c \in CallsOf({"CreateFile"}) : c.out = "ok"
    /\ fs # cc.fs0

\* C7 (as stated): the path a heredoc is written to and recorded under is a
\* resolved one: resolving it again yields the same path.
C7_HeredocDestinationResolved ==
    (CopyReturned /\ ret = NoErr)
        => \A c \in CallsOf({"CreateFile"}) :
               /\ c.dest \in Range(cc.snapshotFiles)
               /\ resolveIfSymlink(fs, c.dest).path = c.dest

\* C8: a failing source ends the call at that step: the result and the
\* loop position stay as they were, nothing on disk is removed or changed
\* back, and nothing happens after the call has returned.
C8_FailureStopsAtOnce ==
    [][/\ pc # "done"
       /\ (mode = "copy" /\ pc = "srcs" /\ ret' # NoErr)
            => /\ pc' = "done"
               /\ cc'.snapshotFiles = cc.snapshotFiles
               /\ cc'.i = cc.i
               /\ FsKept(fs, fs')
               /\ CallsOf({"CreateFile"}) = {}]_vars

C8_Witness ==
    /\ CopyReturned
    /\ ret \in {"copying file", "copying symlink", "copying dir", "could not copy source",
                "resolving dest symlink"}
    /\ cc.snapshotFiles # <<>>
    /\ fs # cc.fs0
    /\ cc.i = 2
    /\ cc.heredocs # <<>>

\* C9 (as stated): with unspecified ownership (uid = gid = -1) a heredoc is
\* created with uid 0 and gid 0.
C9_HeredocOwnerDefaultsToRoot ==
    (mode = "copy" /\ cc.uid = DoNotChange /\ cc.gid = DoNotChange)
        => \A c \in CallsOf({"CreateFile"}) : c.uid = Uint32Zero /\ c.gid = Uint32Zero

\* C10: when ownership, source or chmod resolution fails, ExecuteCommand has
\* returned an error, no copy call was made, and the filesystem and the
\* result are as they were; a copy call is made only after all three.
C10_ResolutionFailureChangesNothing ==
    /\ (mode = "copy" /\ pc # "start" /\ cc.failedAt # "none")
         => /\ pc = "done"
            /\ ret # NoErr
            /\ fs = cc.fs0
            /\ cc.snapshotFiles = <<>>
            /\ cc.calls = <<>>
    /\ (mode = "copy" /\ pc = "start") => (fs = cc.fs0 /\ cc.calls = <<>>)

C10_Witness ==
    /\ CopyReturned
    /\ cc.failedAt = "chmod"
    /\ ret = "getting permissions from chmod"
    /\ fs # <<>>

(***************************************************************************)
(* CachingCopyCommand.ExecuteCommand                                       *)
(***************************************************************************)
MaxLayers == 2      \* layers of an enumerated cached image

NilImage == [nil |-> TRUE, layersErr |-> FALSE, layers |-> <<>>]
Image(layersErr, layers) == [nil |-> FALSE, layersErr |-> layersErr, layers |-> layers]
LayerIds == {"L1", "L2"}
Images == {NilImage} \cup
          {Image(e, ls) : e \in BOOLEAN, ls \in SeqsUpTo(LayerIds, MaxLayers)}

\* the file each layer holds
LayerFile(l) == IF l = "L1" THEN <<Sep, "b">> ELSE <<Sep, "a", Sep, "b">>

\* util.GetFSFromLayers: every layer's file is extracted under the root, in
\* order; the paths extracted are returned, with an error once one fails
RECURSIVE GetFSFromLayers(_, _, _)
GetFSFromLayers(f, layers, extracted) ==
    IF layers = <<>> THEN [err |-> NoErr, fs |-> f, files |-> extracted]
    ELSE LET w == FsCreate(f, LayerFile(Head(layers)), "file")
         IN  IF ~w.ok THEN [err |-> "extract", fs |-> f, files |-> extracted]
             ELSE GetFSFromLayers(w.fs, Tail(layers), Append(extracted, LayerFile(Head(layers))))

\* mutant: only an empty layer list is refused
LayerCountBad_OnlyEmpty(n) == n = 0

\* line 229: len(layers) != 1
LayerCountBad(n) == n # 1

CRInit(img, f) == [img |-> img, extractedFiles |-> <<>>, layer |-> "", fs0 |-> f]

\* CachingCopyCommand.FilesToSnapshot
FilesToSnapshot(c) == c.extractedFiles

InitCached ==
    /\ mode = "cached"
    /\ pc = "start"
    /\ fs \in CopyFsFamily
    /\ destPath = <<>>
    /\ res = NoRes
    /\ cc = Idle
    /\ \E img \in Images : cr = CRInit(img, fs)
    /\ ret = NoErr
    /\ wm = Idle

CachedExecute ==
    /\ mode = "cached"
    /\ pc = "start"
    /\ pc' = "done"
    /\ IF cr.img.nil THEN
           ret' = "cached command image is nil" /\ UNCHANGED <<cr, fs>>
       ELSE IF cr.img.layersErr THEN
           ret' = "retrieve image layers" /\ UNCHANGED <<cr, fs>>
       ELSE IF LayerCountBad(Len(cr.img.layers)) THEN
           ret' = "expected 1 layers" /\ UNCHANGED <<cr, fs>>
       ELSE LET x == GetFSFromLayers(fs, cr.img.layers, <<>>)
            IN  /\ cr' = [cr EXCEPT !.layer = cr.img.layers[1], !.extractedFiles = x.files]
                /\ fs' = x.fs
                /\ ret' = IF x.err # NoErr THEN "extracting fs from image" ELSE NoErr
    /\ UNCHANGED <<mode, destPath, res, cc, wm>>

NextCached == CachedExecute

SpecCached == InitCached /\ [][NextCached]_vars

\* C4: with a nil image, an unreadable layer list or a layer count other
\* than one, ExecuteCommand returns an error, extracts nothing and leaves
\* FilesToSnapshot empty.
C4_BadCachedImageFails ==
    (mode = "cached" /\ pc = "done"
        /\ (cr.img.nil \/ cr.img.layersErr \/ Len(cr.img.layers) # 1))
        => /\ ret # NoErr
           /\ fs = cr.fs0
           /\ cr.layer = ""
           /\ FilesToSnapshot(cr) = <<>>

C4_Witness ==
    /\ mode = "cached" /\ pc = "done"
    /\ ~cr.img.nil /\ ~cr.img.layersErr /\ Len(cr.img.layers) = 2
    /\ GetFSFromLayers(fs, cr.img.layers, <<>>).files # <<>>
    /\ ret = "expected 1 layers"

(***************************************************************************)
(* Warmer.Warm                                                             *)
(***************************************************************************)
MaxCalls == 3       \* Warm calls in one behaviour
MaxTime == 3        \* clock ticks in one behaviour
CacheTTL == 2       \* the freshness window, in ticks

Refs == {"foo:latest", "bar:latest"}

\* mutant: no entry is ever fresh
Fresh_Never(fetchedAt, now) == FALSE

\* an entry is fresh until its freshness window has passed
Fresh(fetchedAt, now) == now <= fetchedAt + CacheTTL

WMInit == [cache |-> <<>>, now |-> 0, remoteCalls |-> 0, log |-> <<>>]

InitWarm ==
    /\ mode = "warm"
    /\ pc = "idle"
    /\ fs = <<>>
    /\ destPath = <<>>
    /\ res = NoRes
    /\ cc = Idle
    /\ cr = Idle
    /\ ret = NoErr
    /\ wm = WMInit

\* Warm(image, opts): fetch unless a fresh entry is cached
Warm ==
    /\ mode = "warm"
    /\ Len(wm.log) < MaxCalls
    /\ \E ref \in Refs :
        IF ref \in DOMAIN wm.cache /\ Fresh(wm.cache[ref], wm.now) THEN
            /\ ret' = "already cached"
            /\ wm' = [wm EXCEPT !.log = Append(@, [ref |-> ref, at |-> wm.now,
                                  err |-> "already cached", remoteCalls |-> wm.remoteCalls])]
        ELSE
            /\ ret' = NoErr
            /\ wm' = [wm EXCEPT
                   !.cache = (ref :> wm.now) @@ @,
                   !.remoteCalls = @ + 1,
                   !.log = Append(@, [ref |-> ref, at |-> wm.now,
                                      err |-> NoErr, remoteCalls |-> wm.remoteCalls + 1])]
    /\ UNCHANGED <<mode, pc, fs, destPath, res, cc, cr>>

\* time passes
Tick ==
    /\ mode = "warm"
    /\ wm.now < MaxTime
    /\ wm' = [wm EXCEPT !.now = @ + 1]
    /\ UNCHANGED <<mode, pc, fs, destPath, res, cc, cr, ret>>

NextWarm == Warm \/ Tick

SpecWarm == InitWarm /\ [][NextWarm]_vars

IsAlreadyCached(err) == err = "already cached"

\* C5: the first Warm of a reference on an empty cache fetches through the
\* remote client and succeeds; a second Warm of it right after reports
\* "already cached" and does not invoke the remote client again.
C5_SecondWarmAlreadyCached ==
    mode = "warm" =>
        /\ wm.log # <<>> => (wm.log[1].err = NoErr /\ wm.log[1].remoteCalls = 1)
        /\ \A k \in 2..Len(wm.log) :
               (wm.log[k].ref = wm.log[k - 1].ref /\ wm.log[k].at = wm.log[k - 1].at
                    /\ wm.log[k - 1].err = NoErr)
                   => /\ IsAlreadyCached(wm.log[k].err)
                      /\ wm.log[k].remoteCalls = wm.log[k - 1].remoteCalls

C5_Witness ==
    /\ mode = "warm"
    /\ Len(wm.log) = 2
    /\ wm.log[1].ref = wm.log[2].ref
    /\ wm.log[1].at = wm.log[2].at
    /\ wm.log[1].err = NoErr
    /\ IsAlreadyCached(wm.log[2].err)
    /\ wm.remoteCalls = 1

====
